---- MODULE Spec2Model ----
(***************************************************************************)
(* Model of src/coffee2.py, a Streamlit script.  Streamlit executes the    *)
(* whole script top to bottom once per user interaction (a "pass"); the    *)
(* only state that survives a pass is the st.cache_data entry of load_data *)
(* and the values of the widgets.                                          *)
(*                                                                         *)
(* Numbers: Coffee_Intake and Physical_Activity_Hours are held in tenths   *)
(* (2.1 cups is 21, 23.9 hours is 239); values shown after round(x, 2) are *)
(* held in hundredths (2.37 is 237).  A missing value (pandas NaN) is the  *)
(* empty tuple, a present value v is <<v>>.                                *)
(*                                                                         *)
(* The columns Sleep_Hours, Heart_Rate, BMI, Occupation, Smoking and       *)
(* Alcohol_Consumption are only ever read by the script and are left out   *)
(* of the rows.                                                            *)
(***************************************************************************)
EXTENDS Integers, Sequences, FiniteSets, TLC

VARIABLES
    file,           \* contents of synthetic_coffee_health_10000.csv
    cache,          \* st.cache_data entry of load_data: <<>> or <<table>>
    cachedAt,       \* time (s) the cache entry was written
    now,            \* wall clock (s)
    readTimes,      \* history: the times at which pd.read_csv ran
    widgets,        \* session widget state: <<>> before the first pass
    pc,             \* position of the running pass in the script
    data,           \* script variable data
    countries,      \* script variable countries
    genders,        \* script variable genders
    age_range,      \* script variable age_range
    filtered_data,  \* script variable filtered_data
    kpi,            \* values handed to the st.metric calls of tab1
    data_list,      \* script variable data_list of tab3
    x_var,          \* script variable x_var of tab4
    executed        \* history: the steps the current pass has executed

vars == <<file, cache, cachedAt, now, readTimes, widgets, pc, data, countries,
          genders, age_range, filtered_data, kpi, data_list, x_var, executed>>

cacheVars == <<cache, cachedAt, readTimes>>
selVars == <<countries, genders, age_range>>
viewVars == <<kpi, data_list, x_var>>

-----------------------------------------------------------------------------
(* Bounds *)

MaxRows == 3        \* rows of the dataset file
MaxViewRows == 2    \* rows of a table handed to the views
MaxTicks == 4       \* clock steps of half a freshness window

-----------------------------------------------------------------------------
(* Values *)

Missing == <<>>
Some(v) == <<v>>

Row(c, g, a, i, s, h) ==
    [Country |-> c, Gender |-> g, Age |-> a, Coffee_Intake |-> i,
     Stress_Level |-> s, Physical_Activity_Hours |-> h]

SourceColumns ==
    {"Country", "Gender", "Age", "Coffee_Intake", "Stress_Level",
     "Physical_Activity_Hours"}

Range(s) == {s[i] : i \in DOMAIN s}

RECURSIVE SumSeq(_)
SumSeq(s) == IF s = <<>> THEN 0 ELSE Head(s) + SumSeq(Tail(s))

Max(S) == CHOOSE x \in S : \A y \in S : y <= x
Min(S) == CHOOSE x \in S : \A y \in S : x <= y

\* The rows the dataset files are drawn from, in file order.
Catalogue ==
    << Row("US", "Male",   20, 20, "Low",     10),
       Row("US", "Female", 61, 40, "High",    30),
       Row("DE", "Male",   40, 30, "Medium",  50),
       Row("DE", "Female", 60, 21, "Extreme", 70),
       Row("US", "Male",   20, 20, "Low",     10) >>

RECURSIVE Pick(_, _, _)
Pick(s, I, i) ==
    IF i > Len(s) THEN <<>>
    ELSE (IF i \in I THEN <<s[i]>> ELSE <<>>) \o Pick(s, I, i + 1)

Ages(t) == {t[i].Age : i \in DOMAIN t}

\* st.sidebar.slider(min, max, (20, 60)) needs min <= 20 and 60 <= max.
Files ==
    {t \in {Pick(Catalogue, I, 1) : I \in SUBSET (1..Len(Catalogue))} :
        /\ 1 <= Len(t) /\ Len(t) <= MaxRows
        /\ Min(Ages(t)) <= 20 /\ 60 <= Max(Ages(t))}

-----------------------------------------------------------------------------
(* Dataset loader: @st.cache_data(ttl=600) def load_data() *)

TTL == 600

HalfWindow == TTL \div 2

\* A cache entry written at time at is served while it is younger than ttl.
CacheFresh_never(t, at) == FALSE

CacheFresh(t, at) == t - at < TTL

LoadData ==
    /\ pc = "load"
    /\ IF cache # <<>> /\ CacheFresh(now, cachedAt)
       THEN /\ data' = cache[1]
            /\ UNCHANGED cacheVars
       ELSE /\ data' = file                       \* pd.read_csv
            /\ cache' = <<file>>
            /\ cachedAt' = now
            /\ readTimes' = Append(readTimes, now)
    /\ pc' = "sidebar"
    /\ executed' = Append(executed, "load_data")
    /\ UNCHANGED <<file, now, widgets, selVars, filtered_data, viewVars>>

-----------------------------------------------------------------------------
(* Sidebar widgets *)

Unique(t, c) == {t[i][c] : i \in DOMAIN t}

Defaults(t) ==
    [countries |-> Unique(t, "Country"), genders |-> Unique(t, "Gender"),
     age_range |-> <<20, 60>>]

Sidebar ==
    /\ pc = "sidebar"
    /\ LET w == IF widgets = <<>> THEN Defaults(data) ELSE widgets[1]
       IN /\ widgets' = <<w>>
          /\ countries' = w.countries
          /\ genders' = w.genders
          /\ age_range' = w.age_range
    /\ pc' = "filter"
    /\ executed' = Append(executed, "sidebar")
    /\ UNCHANGED <<file, cacheVars, now, data, filtered_data, viewVars>>

-----------------------------------------------------------------------------
(* Filter engine *)

RowSelected_exclusive(r, cs, gs, ar) ==
    /\ r.Country \in cs
    /\ r.Gender \in gs
    /\ r.Age >= ar[1]
    /\ r.Age < ar[2]

RowSelected(r, cs, gs, ar) ==
    /\ r.Country \in cs
    /\ r.Gender \in gs
    /\ r.Age >= ar[1]
    /\ r.Age <= ar[2]

Filter ==
    /\ pc = "filter"
    /\ LET Keep(r) == RowSelected(r, countries, genders, age_range)
       IN filtered_data' = SelectSeq(data, Keep)
    /\ pc' = "guard"
    /\ executed' = Append(executed, "filter")
    /\ UNCHANGED <<file, cacheVars, now, widgets, data, selVars, viewVars>>

EmptyGuard_nostop ==
    /\ pc = "guard"
    /\ IF filtered_data = <<>>
       THEN executed' = Append(executed, "warning")
       ELSE UNCHANGED executed
    /\ pc' = "stress"
    /\ UNCHANGED <<file, cacheVars, now, widgets, data, selVars, filtered_data,
                   viewVars>>

EmptyGuard ==
    /\ pc = "guard"
    /\ IF filtered_data = <<>>
       THEN /\ executed' = Append(executed, "warning")    \* st.warning
            /\ pc' = "stopped"                            \* st.stop
       ELSE /\ pc' = "stress"
            /\ UNCHANGED executed
    /\ UNCHANGED <<file, cacheVars, now, widgets, data, selVars, filtered_data,
                   viewVars>>

-----------------------------------------------------------------------------
(* Derived field Stress_Index *)

stress_level_mapping == [Low |-> 1, Medium |-> 2, High |-> 3]

\* Series.map(dict): a value that is no key of the dict maps to NaN.
StressIndex_fill(level) ==
    IF level \in DOMAIN stress_level_mapping
    THEN Some(stress_level_mapping[level]) ELSE Some(0)

StressIndex(level) ==
    IF level \in DOMAIN stress_level_mapping
    THEN Some(stress_level_mapping[level]) ELSE Missing

\* df[c] = values: the column c is added, or overwritten where it exists.
WithColumn(t, c, values) == [i \in DOMAIN t |-> (c :> values[i]) @@ t[i]]

StressColumn(t) == [i \in DOMAIN t |-> StressIndex(t[i].Stress_Level)]

AddStressIndex_inplace ==
    /\ pc = "stress"
    /\ filtered_data' =
           WithColumn(filtered_data, "Stress_Index", StressColumn(filtered_data))
    /\ data' = WithColumn(data, "Stress_Index", StressColumn(data))
    /\ pc' = "kpi"
    /\ executed' = Append(executed, "stress_index")
    /\ UNCHANGED <<file, cacheVars, now, widgets, selVars, viewVars>>

AddStressIndex ==
    /\ pc = "stress"
    /\ filtered_data' =
           WithColumn(filtered_data, "Stress_Index", StressColumn(filtered_data))
    /\ pc' = "kpi"
    /\ executed' = Append(executed, "stress_index")
    /\ UNCHANGED <<file, cacheVars, now, widgets, data, selVars, viewVars>>

-----------------------------------------------------------------------------
(* Aggregation helpers *)

\* round(num / den, 2) in hundredths, for num / den already in hundredths,
\* num >= 0.  At an exact tie the neighbour chosen depends on the binary
\* representation of the float, so both are outcomes.
Round2_floor(num, den) == {num \div den}

Round2(num, den) ==
    LET lo == num \div den
        rem == num % den
    IN IF 2 * rem < den THEN {lo}
       ELSE IF 2 * rem > den THEN {lo + 1}
       ELSE {lo, lo + 1}

Column(t, c) == [i \in DOMAIN t |-> t[i][c]]

Present(cells) == SelectSeq(cells, LAMBDA v : v # Missing)

Values(cells) == [i \in DOMAIN cells |-> cells[i][1]]

\* round(Series.mean(), 2), NaN cells skipped; unit is the number of
\* hundredths in one unit of the column.
MeanShown(cells, unit) ==
    LET vs == Values(Present(cells))
    IN IF vs = <<>> THEN {Missing}
       ELSE {Some(q) : q \in Round2(unit * SumSeq(vs), Len(vs))}

Cells(t, c) == [i \in DOMAIN t |-> Some(t[i][c])]

-----------------------------------------------------------------------------
(* tab1: KPI metrics *)

KpiValues(t) ==
    {[coffee |-> c, stress |-> s] :
        c \in MeanShown(Cells(t, "Coffee_Intake"), 10),
        s \in MeanShown(Column(t, "Stress_Index"), 100)}

TabKPI ==
    /\ pc = "kpi"
    /\ kpi' \in KpiValues(filtered_data)
    /\ pc' = "scatter"
    /\ executed' = Append(executed, "kpi")
    /\ UNCHANGED <<file, cacheVars, now, widgets, data, selVars, filtered_data,
                   data_list, x_var>>

(* tab2: scatter of Coffee_Intake against the selected health metric *)

TabScatter ==
    /\ pc = "scatter"
    /\ pc' = "map"
    /\ executed' = Append(executed, "scatter")
    /\ UNCHANGED <<file, cacheVars, now, widgets, data, selVars, filtered_data,
                   viewVars>>

(* tab3: country means, then st_echarts, a name the script never binds *)

GroupRows(t, c, k) == SelectSeq(t, LAMBDA r : r[c] = k)

\* data_list: country |-> round(mean of Coffee_Intake, 2)
DataLists(t) ==
    LET ks == Unique(t, "Country")
        avg(k) == MeanShown(Cells(GroupRows(t, "Country", k), "Coffee_Intake"), 10)
    IN {f \in [ks -> UNION {avg(k) : k \in ks}] : \A k \in ks : f[k] \in avg(k)}

TabMap ==
    /\ pc = "map"
    /\ data_list' \in DataLists(filtered_data)
    /\ pc' = "error"                               \* NameError: st_echarts
    /\ executed' = Append(executed, "country_avg")
    /\ UNCHANGED <<file, cacheVars, now, widgets, data, selVars, filtered_data,
                   kpi, x_var>>

-----------------------------------------------------------------------------
(* tab4: occupation bar and violin, habit distribution *)

TabBar ==
    /\ pc = "bar"
    /\ pc' = "violin"
    /\ executed' = Append(executed, "bar")
    /\ UNCHANGED <<file, cacheVars, now, widgets, data, selVars, filtered_data,
                   viewVars>>

TabViolin ==
    /\ pc = "violin"
    /\ pc' = "habit"
    /\ executed' = Append(executed, "violin")
    /\ UNCHANGED <<file, cacheVars, now, widgets, data, selVars, filtered_data,
                   viewVars>>

Habits == {"Smoking", "Alcohol_Consumption", "Physical_Activity_Hours"}

ActivityBreaks == <<0, 20, 40, 60, 240>>       \* bins=[0, 2, 4, 6, 24]
ActivityLabels == <<"0-2h", "2-4h", "4-6h", "6h+">>

\* pd.cut(x, bins, labels): right=True, include_lowest=False, so bin i is
\* the interval (bins[i], bins[i+1]]; a value in no interval is NaN.
BinHits_left(x, bins) ==
    {i \in 1..(Len(bins) - 1) : bins[i] <= x /\ x < bins[i + 1]}

BinHits(x, bins) ==
    {i \in 1..(Len(bins) - 1) : bins[i] < x /\ x <= bins[i + 1]}

Cut(x, bins, labels) ==
    LET hits == BinHits(x, bins)
    IN IF hits = {} THEN Missing ELSE Some(labels[CHOOSE i \in hits : TRUE])

ActivityBin(h) == Cut(h, ActivityBreaks, ActivityLabels)

ActivityColumn(t) ==
    [i \in DOMAIN t |-> ActivityBin(t[i].Physical_Activity_Hours)]

TabHabit_dropna ==
    /\ pc = "habit"
    /\ \E habit \in Habits :
          IF habit = "Physical_Activity_Hours"
          THEN /\ filtered_data' =
                      SelectSeq(WithColumn(filtered_data, "Activity_Bins",
                                           ActivityColumn(filtered_data)),
                                LAMBDA r : r.Activity_Bins # Missing)
               /\ x_var' = "Activity_Bins"
          ELSE /\ x_var' = habit
               /\ UNCHANGED filtered_data
    /\ pc' = "corr"
    /\ executed' = Append(executed, "habit")
    /\ UNCHANGED <<file, cacheVars, now, widgets, data, selVars, kpi, data_list>>

TabHabit ==
    /\ pc = "habit"
    /\ \E habit \in Habits :
          IF habit = "Physical_Activity_Hours"
          THEN /\ filtered_data' =
                      WithColumn(filtered_data, "Activity_Bins",
                                 ActivityColumn(filtered_data))
               /\ x_var' = "Activity_Bins"
          ELSE /\ x_var' = habit
               /\ UNCHANGED filtered_data
    /\ pc' = "corr"
    /\ executed' = Append(executed, "habit")
    /\ UNCHANGED <<file, cacheVars, now, widgets, data, selVars, kpi, data_list>>

(* tab5: correlation heatmap and age trend; then the footer *)

TabCorr ==
    /\ pc = "corr"
    /\ pc' = "trend"
    /\ executed' = Append(executed, "corr")
    /\ UNCHANGED <<file, cacheVars, now, widgets, data, selVars, filtered_data,
                   viewVars>>

TabTrend ==
    /\ pc = "trend"
    /\ pc' = "footer"
    /\ executed' = Append(executed, "trend")
    /\ UNCHANGED <<file, cacheVars, now, widgets, data, selVars, filtered_data,
                   viewVars>>

Footer ==
    /\ pc = "footer"
    /\ pc' = "done"
    /\ executed' = Append(executed, "footer")
    /\ UNCHANGED <<file, cacheVars, now, widgets, data, selVars, filtered_data,
                   viewVars>>

-----------------------------------------------------------------------------
(* User interaction: a changed widget value makes Streamlit run the script *)
(* again, in a fresh namespace.  Interactions are taken between passes.    *)

PassEnded == pc \in {"stopped", "error", "done"}

Rerun(w) ==
    /\ PassEnded
    /\ widgets' = <<w>>
    /\ pc' = "load"
    /\ data' = <<>>
    /\ countries' = {}
    /\ genders' = {}
    /\ age_range' = <<>>
    /\ filtered_data' = <<>>
    /\ kpi' = <<>>
    /\ data_list' = <<>>
    /\ x_var' = ""
    /\ executed' = <<>>
    /\ UNCHANGED <<file, cacheVars, now>>

SelectCountries ==
    /\ PassEnded
    /\ \E cs \in SUBSET Unique(data, "Country") :
          /\ cs # widgets[1].countries
          /\ Rerun([widgets[1] EXCEPT !.countries = cs])

SelectGenders ==
    /\ PassEnded
    /\ \E gs \in SUBSET Unique(data, "Gender") :
          /\ gs # widgets[1].genders
          /\ Rerun([widgets[1] EXCEPT !.genders = gs])

\* Slider positions tried, among the integers Age.min() .. Age.max().
AgeMarks == {20, 40, 60, 61}

SlideAge ==
    /\ PassEnded
    /\ \E lo \in AgeMarks, hi \in AgeMarks :
          /\ Min(Ages(data)) <= lo /\ lo <= hi /\ hi <= Max(Ages(data))
          /\ <<lo, hi>> # widgets[1].age_range
          /\ Rerun([widgets[1] EXCEPT !.age_range = <<lo, hi>>])

\* A change of the health metric of tab2, which a stopped pass does not show.
SelectMetric ==
    /\ pc \in {"error", "done"}
    /\ Rerun(widgets[1])

Tick ==
    /\ PassEnded
    /\ now + HalfWindow <= MaxTicks * HalfWindow
    /\ now' = now + HalfWindow
    /\ UNCHANGED <<file, cacheVars, widgets, pc, data, selVars, filtered_data,
                   viewVars, executed>>

-----------------------------------------------------------------------------
(* The script as it runs *)

Init ==
    /\ file \in Files
    /\ cache = <<>>
    /\ cachedAt = 0
    /\ now = 0
    /\ readTimes = <<>>
    /\ widgets = <<>>
    /\ pc = "load"
    /\ data = <<>>
    /\ countries = {}
    /\ genders = {}
    /\ age_range = <<>>
    /\ filtered_data = <<>>
    /\ kpi = <<>>
    /\ data_list = <<>>
    /\ x_var = ""
    /\ executed = <<>>

Next ==
    \/ LoadData
    \/ Sidebar
    \/ Filter
    \/ EmptyGuard
    \/ AddStressIndex
    \/ TabKPI
    \/ TabScatter
    \/ TabMap
    \/ SelectCountries
    \/ SelectGenders
    \/ SlideAge
    \/ SelectMetric
    \/ Tick

Spec == Init /\ [][Next]_vars

-----------------------------------------------------------------------------
(* The views on their own: each view applied to a filtered table.  A pass  *)
(* enters tab1 after line 47; tab4 and tab5 are entered with the filtered  *)
(* table as tab3 leaves it, had st_echarts been bound.                     *)

ViewCatalogue ==
    << Row("US", "Male",   20, 20, "Low",     -5),
       Row("US", "Female", 60, 40, "High",    0),
       Row("DE", "Male",   20, 30, "Medium",  10),
       Row("DE", "Female", 60, 21, "Low",     20),
       Row("US", "Female", 60, 25, "High",    40),
       Row("US", "Male",   20, 35, "Medium",  60),
       Row("DE", "Female", 60, 15, "Low",     239),
       Row("DE", "Male",   20, 10, "High",    240),
       Row("US", "Female", 60, 50, "Extreme", 245) >>

ViewFiles ==
    {t \in {Pick(ViewCatalogue, I, 1) : I \in SUBSET (1..Len(ViewCatalogue))} :
        /\ 1 <= Len(t) /\ Len(t) <= MaxViewRows
        /\ Min(Ages(t)) <= 20 /\ 60 <= Max(Ages(t))}

InitViews ==
    /\ file \in ViewFiles
    /\ cache = <<file>>
    /\ cachedAt = 0
    /\ now = 0
    /\ readTimes = <<0>>
    /\ widgets = <<Defaults(file)>>
    /\ data = file
    /\ countries = Unique(file, "Country")
    /\ genders = Unique(file, "Gender")
    /\ age_range = <<20, 60>>
    /\ filtered_data = WithColumn(file, "Stress_Index", StressColumn(file))
    /\ x_var = ""
    /\ \/ /\ pc = "kpi"
          /\ kpi = <<>>
          /\ data_list = <<>>
          /\ executed = <<"load_data", "sidebar", "filter", "stress_index">>
       \/ /\ pc = "bar"
          /\ kpi \in KpiValues(filtered_data)
          /\ data_list \in DataLists(filtered_data)
          /\ executed = <<"load_data", "sidebar", "filter", "stress_index",
                          "kpi", "scatter", "country_avg">>

NextViews ==
    \/ TabKPI
    \/ TabScatter
    \/ TabMap
    \/ TabBar
    \/ TabViolin
    \/ TabHabit
    \/ TabCorr
    \/ TabTrend
    \/ Footer

SpecViews == InitViews /\ [][NextViews]_vars

\* Passes of the script, and the views on tables of their own.
SpecAll == (Init \/ InitViews) /\ [][Next \/ NextViews]_vars

-----------------------------------------------------------------------------
(* Properties *)

Count(s, r) == Cardinality({i \in DOMAIN s : s[i] = r})

\* The source columns of a derived table.
Base(t) == [i \in DOMAIN t |-> [c \in SourceColumns |-> t[i][c]]]

Filtered == pc \notin {"load", "sidebar", "filter"}

Abs(x) == IF x < 0 THEN -x ELSE x

\* C1: once the filter has run, filtered_data holds exactly the rows of the
\* loaded table whose Country is selected, whose Gender is selected and whose
\* Age lies in [age_range[1], age_range[2]], bounds included: each such row
\* as often as the table holds it, and no other row.
FilterExact ==
    Filtered =>
        /\ data = file
        /\ \A r \in Range(data) \cup Range(Base(filtered_data)) :
              Count(Base(filtered_data), r) =
                  IF /\ r.Country \in countries
                     /\ r.Gender \in genders
                     /\ age_range[1] <= r.Age
                     /\ r.Age <= age_range[2]
                  THEN Count(data, r) ELSE 0

\* A row on the upper age bound is kept, twice where the table holds it
\* twice, and a row outside the selection is dropped.
FilterWitness ==
    /\ pc = "guard"
    /\ \E i \in DOMAIN data :
          /\ data[i].Age = age_range[2]
          /\ Count(filtered_data, data[i]) = 2
    /\ \E j \in DOMAIN data : Count(filtered_data, data[j]) = 0

\* C2: a pass whose filter yields no row shows the notice and stops; it
\* computes no derived field, no aggregate and no chart.
EmptyStops ==
    /\ (Filtered /\ filtered_data = <<>>) =>
          /\ pc \in {"guard", "stopped"}
          /\ kpi = <<>> /\ data_list = <<>> /\ x_var = ""
          /\ pc = "stopped" =>
                executed = <<"load_data", "sidebar", "filter", "warning">>
    /\ pc = "stopped" => filtered_data = <<>>

\* A pass stopped on an empty country selection.
EmptyStopsWitness ==
    /\ pc = "stopped"
    /\ countries = {}
    /\ genders # {}

\* C5: the stress index of a filtered row is 1 for Low, 2 for Medium, 3 for
\* High and missing for every other stress level.
StressIndexByLevel ==
    /\ pc \in {"kpi", "scatter", "map", "error"} =>
          \A i \in DOMAIN filtered_data :
              "Stress_Index" \in DOMAIN filtered_data[i]
    /\ \A i \in DOMAIN filtered_data :
          LET r == filtered_data[i]
          IN "Stress_Index" \in DOMAIN r =>
                /\ r.Stress_Level = "Low" => r.Stress_Index = <<1>>
                /\ r.Stress_Level = "Medium" => r.Stress_Index = <<2>>
                /\ r.Stress_Level = "High" => r.Stress_Index = <<3>>
                /\ r.Stress_Level \notin {"Low", "Medium", "High"} =>
                      r.Stress_Index = Missing

StressIndexWitness ==
    /\ pc = "kpi"
    /\ \E i, j \in DOMAIN filtered_data :
          /\ filtered_data[i].Stress_Level = "Extreme"
          /\ filtered_data[i].Stress_Index = Missing
          /\ filtered_data[j].Stress_Level = "High"
          /\ filtered_data[j].Stress_Index = <<3>>

\* C6: the loaded table is never written: whenever data is bound it is the
\* table of the file, with the source columns only, and so is the cached
\* table; Stress_Index and Activity_Bins are columns of filtered_data alone.
SourceImmutable ==
    /\ data \in {<<>>, file}
    /\ pc # "load" => data = file
    /\ cache # <<>> => cache[1] = file
    /\ \A i \in DOMAIN file : DOMAIN file[i] = SourceColumns

SourceImmutableWitness ==
    /\ data = file
    /\ \E i \in DOMAIN filtered_data :
          {"Stress_Index", "Activity_Bins"} \subseteq DOMAIN filtered_data[i]

CoffeeSum == SumSeq(Column(filtered_data, "Coffee_Intake"))

\* C7 as stated: the coffee KPI shown is the arithmetic mean of
\* Coffee_Intake over the rows of filtered_data.
KpiExactMean ==
    kpi # <<>> =>
        /\ kpi.coffee # Missing
        /\ kpi.coffee[1] * Len(filtered_data) = 10 * CoffeeSum

\* C7 amended: the coffee KPI shown is that mean rounded to two decimals,
\* a multiple of 0.01 at most 0.005 away from the mean.
KpiRoundedMean ==
    kpi # <<>> =>
        /\ kpi.coffee # Missing
        /\ 2 * Abs(kpi.coffee[1] * Len(filtered_data) - 10 * CoffeeSum)
              <= Len(filtered_data)

KpiWitness ==
    /\ kpi # <<>>
    /\ kpi.coffee[1] * Len(filtered_data) # 10 * CoffeeSum

\* C8 as stated: the file is read at most once, whatever time passes.
ReadOnce == Len(readTimes) <= 1

\* C8 amended: the file is read at most once per freshness window of 600 s:
\* a call of load_data reads the file when there is no cache entry or the
\* entry is 600 s old, and two reads are at least 600 s apart.
ReadOncePerWindow ==
    /\ \A i \in 1..(Len(readTimes) - 1) : readTimes[i + 1] - readTimes[i] >= TTL
    /\ readTimes # <<>> => cachedAt = readTimes[Len(readTimes)]
    /\ pc = "sidebar" => now - cachedAt < TTL

\* A second read has happened, and a later call was served from the cache.
ReadWitness ==
    /\ Len(readTimes) = 2
    /\ pc = "sidebar"
    /\ now > cachedAt

\* C9: a pass with a non-empty filter result ends only after the age-trend
\* view, having run every view in order.
PassCompletes ==
    (PassEnded /\ filtered_data # <<>>) =>
        executed = <<"load_data", "sidebar", "filter", "stress_index", "kpi",
                     "scatter", "country_avg", "bar", "violin", "habit",
                     "corr", "trend", "footer">>

\* The rows of filtered_data that carry an activity bin, as (hours, bin).
Binned ==
    {<<filtered_data[i].Physical_Activity_Hours, filtered_data[i].Activity_Bins>> :
        i \in {j \in DOMAIN filtered_data :
                  "Activity_Bins" \in DOMAIN filtered_data[j]}}

BinIs(h, b) == \A hb \in Binned : hb[1] = h => hb[2] = b

\* C3 as stated: a breakpoint goes to the upper bin: 0 is "0-2h", 2 is
\* "2-4h", 4 is "4-6h", 6 is "6h+", 23.9 is "6h+", and a value outside
\* [0, 24), 24 included, has no bin.
BreakpointsGoUp ==
    /\ BinIs(0, Some("0-2h"))
    /\ BinIs(20, Some("2-4h"))
    /\ BinIs(40, Some("4-6h"))
    /\ BinIs(60, Some("6h+"))
    /\ BinIs(239, Some("6h+"))
    /\ \A hb \in Binned : (hb[1] < 0 \/ hb[1] >= 240) => hb[2] = Missing

\* C3 amended: a breakpoint above 0 goes to the lower bin: 2 is "0-2h", 4 is
\* "2-4h", 6 is "4-6h", 24 is "6h+", 23.9 is "6h+", and a value below 0 or
\* above 24 has no bin.
BreakpointsGoDown ==
    /\ BinIs(20, Some("0-2h"))
    /\ BinIs(40, Some("2-4h"))
    /\ BinIs(60, Some("4-6h"))
    /\ BinIs(240, Some("6h+"))
    /\ BinIs(239, Some("6h+"))
    /\ \A hb \in Binned : (hb[1] < 0 \/ hb[1] > 240) => hb[2] = Missing

BreakpointsWitness ==
    /\ <<20, Some("0-2h")>> \in Binned
    /\ <<240, Some("6h+")>> \in Binned

\* C4: the binning is a partition: every hours value from 0 to 24 has
\* exactly one of the four labels, and every value below 0 or above 24 has
\* none.
ActivityPartition ==
    \A hb \in Binned :
        /\ (0 <= hb[1] /\ hb[1] <= 240) =>
              /\ hb[2] \in {Some(l) : l \in Range(ActivityLabels)}
              /\ Cardinality(BinHits(hb[1], ActivityBreaks)) = 1
        /\ (hb[1] < 0 \/ hb[1] > 240) => hb[2] = Missing

\* C10 as stated: no view changes filtered_data.
ViewsPure == [][filtered_data' = filtered_data]_vars

\* C10 amended: a view leaves the rows of filtered_data and every value of
\* every column it has in place; the one change a view makes is that the
\* habit view, with Physical_Activity_Hours selected, adds the column
\* Activity_Bins.
ViewsKeepColumns ==
    [][/\ DOMAIN filtered_data' = DOMAIN filtered_data
       /\ \A i \in DOMAIN filtered_data :
             /\ \A c \in DOMAIN filtered_data[i] :
                   /\ c \in DOMAIN filtered_data'[i]
                   /\ filtered_data'[i][c] = filtered_data[i][c]
             /\ DOMAIN filtered_data'[i] \ DOMAIN filtered_data[i] =
                   IF pc = "habit" /\ x_var' = "Activity_Bins"
                   THEN {"Activity_Bins"} ELSE {}]_vars

ViewsWitness ==
    /\ pc = "done"
    /\ x_var = "Activity_Bins"
    /\ \A i \in DOMAIN filtered_data :
          DOMAIN filtered_data[i] =
              SourceColumns \cup {"Stress_Index", "Activity_Bins"}

====
